---- MODULE Spec2Model ----
(***************************************************************************)
(* Habit Forge Lite (src/src/index.jsx): a React client over a Firestore   *)
(* collection of habits.  The model has the stored collection of one user, *)
(* and two client sessions of that user (two tabs or devices), each with   *)
(* its own React state: the auth state of useFirebaseSetup, the habit list *)
(* and subscription of useHabits, the selected date of App and the form    *)
(* state of AddHabitForm.                                                  *)
(*                                                                         *)
(* A write (setDoc, updateDoc, deleteDoc) is applied to the store in the   *)
(* step that issues it, or fails in that step; the snapshot that carries   *)
(* the change to a session is a separate step (Snapshot).                  *)
(***************************************************************************)
EXTENDS Integers, Sequences, FiniteSets, TLC

\* ------------------------------------------------------------------ bounds
HABIT_LIMIT == 3

MaxIds == 4

MaxDay == 2

MaxSubs == 2

MaxNameLen == 2

\* habits created in the specifications that are not about the limit
MaxCreated == 1

Sessions == {"s1", "s2"}

\* the one user both sessions sign in as, and the null user id
Uid == "u1"

NoUser == "null"

NoDb == "null"

Db == "db"

IdPool == 1..MaxIds

\* dates the date navigator can select: past, today and one future date
Dates == 1..(MaxDay + 1)

Chars == {" ", "a"}

VARIABLES
    today,        \* the calendar day getToday() returns now
    store,        \* the user's habits collection: document id -> fields
    usedIds,      \* document ids crypto.randomUUID() has returned so far
    mounted,      \* per session: App is mounted
    userId,       \* per session: useFirebaseSetup state
    dbInstance,   \* per session: useFirebaseSetup state
    isAuthReady,  \* per session: useFirebaseSetup state
    habits,       \* per session: useHabits state, the in-memory list
    isLoading,    \* per session: useHabits state
    selectedDate, \* per session: App state
    isEditable,   \* per session: HabitItem's isEditable as of the last render
    isAdding,     \* per session: AddHabitForm state
    subs,         \* per session: the onSnapshot subscriptions acquired so far
    cleanup,      \* per session: the cleanup the last useHabits effect returned
    lastOp        \* the last create / delete / toggle handler that ran

vars == <<today, store, usedIds, mounted, userId, dbInstance, isAuthReady,
          habits, isLoading, selectedDate, isEditable, isAdding, subs,
          cleanup, lastOp>>

authVars == <<userId, dbInstance, isAuthReady>>

\* ------------------------------------------------------------ pure helpers

\* String.prototype.trim on a sequence of characters
RECURSIVE TrimLeft(_)
TrimLeft(s) ==
    IF s # <<>> /\ Head(s) = " " THEN TrimLeft(Tail(s)) ELSE s

RECURSIVE TrimRight(_)
TrimRight(s) ==
    IF s # <<>> /\ s[Len(s)] = " "
    THEN TrimRight(SubSeq(s, 1, Len(s) - 1))
    ELSE s

trim(s) == TrimRight(TrimLeft(s))

\* all strings over Chars of length at most n
RECURSIVE StringsUpTo(_)
StringsUpTo(n) ==
    IF n = 0 THEN {<<>>}
    ELSE LET shorter == StringsUpTo(n - 1)
         IN  shorter \cup {Append(s, c) : s \in shorter, c \in Chars}

Names == StringsUpTo(MaxNameLen)

\* getToday(): the current calendar day
getToday == today

\* HabitItem: isFutureDate and isEditable, computed when the item renders
isFutureDate(sel, now) == sel > now

\* isEditable without the checks against today
IsEditableAlways(sel, now) == TRUE

IsEditableAt(sel, now) == (sel = now) /\ ~isFutureDate(sel, now)

\* crypto.randomUUID(): an id no document was ever given; the model hands the
\* ids of the pool out in turn
randomUUID(used) == CHOOSE x \in IdPool \ used : \A y \in IdPool \ used : x <= y

\* new Date().toISOString() in createHabit: a clock that ticks per create
Now == Cardinality(usedIds) + 1

\* the ids of a set, ascending: the order a collection query returns documents
RECURSIVE IdsAscending(_)
IdsAscending(S) ==
    IF S = {} THEN <<>>
    ELSE LET m == CHOOSE x \in S : \A y \in S : x <= y
         IN  <<m>> \o IdsAscending(S \ {m})

\* snapshot.docs.map(doc => ({id: doc.id, ...doc.data()}))
DocsOf(st) ==
    LET ids == IdsAscending(DOMAIN st)
    IN  [i \in 1..Len(ids) |->
            [id |-> ids[i], name |-> st[ids[i]].name,
             createdAt |-> st[ids[i]].createdAt, order |-> st[ids[i]].order,
             completions |-> st[ids[i]].completions]]

\* Array.prototype.sort((a, b) => a.order - b.order): a stable sort
RECURSIVE InsertByOrder(_, _)
InsertByOrder(sorted, h) ==
    IF sorted = <<>> THEN <<h>>
    ELSE IF sorted[Len(sorted)].order <= h.order THEN Append(sorted, h)
    ELSE Append(InsertByOrder(SubSeq(sorted, 1, Len(sorted) - 1), h),
                sorted[Len(sorted)])

RECURSIVE SortByOrder(_)
SortByOrder(seq) ==
    IF seq = <<>> THEN <<>>
    ELSE InsertByOrder(SortByOrder(SubSeq(seq, 1, Len(seq) - 1)), seq[Len(seq)])

\* the list the onSnapshot callback hands to setHabits
SnapshotList(st) == SortByOrder(DocsOf(st))

\* ---------------------------------------------------------- the store API

\* setDoc(doc(db, path, id), fields): creates or overwrites the document
setDoc(st, id, fields) ==
    [x \in DOMAIN st \cup {id} |-> IF x = id THEN fields ELSE st[x]]

\* updateDoc(doc(db, path, id), {completions}) replaces the completions field
\* of an existing document; on a missing document it is rejected (not-found)
updateDocRejects(st, id) == id \notin DOMAIN st

\* an update that creates the missing document (setDoc with merge)
updateDocUpsert(st, id, completions) ==
    [x \in DOMAIN st \cup {id} |->
        IF x # id THEN st[x]
        ELSE IF id \in DOMAIN st
             THEN [st[id] EXCEPT !.completions = completions]
             ELSE [name |-> <<>>, createdAt |-> 0, order |-> 0,
                   completions |-> completions]]

updateDoc(st, id, completions) ==
    IF updateDocRejects(st, id) THEN st
    ELSE [st EXCEPT ![id].completions = completions]

\* deleteDoc(doc(db, path, id)): succeeds whether or not the document exists
deleteDoc(st, id) == [x \in DOMAIN st \ {id} |-> st[x]]

\* toggleCompletion: the completions map it writes for an in-memory habit
newCompletions(habit, day) ==
    IF day \in habit.completions
    THEN habit.completions \ {day}
    ELSE habit.completions \cup {day}

\* no handler has run yet
NoOp == [op |-> "none", who |-> "s1", id |-> 0, day |-> 0, calls |-> 0,
         failed |-> FALSE, ret |-> "undefined", future |-> FALSE,
         blank |-> FALSE, before |-> FALSE]

\* ------------------------------------------------------------------- Init
Init ==
    /\ today = 1
    /\ store = << >>
    /\ usedIds = {}
    /\ mounted = [s \in Sessions |-> TRUE]
    /\ userId = [s \in Sessions |-> NoUser]
    /\ dbInstance = [s \in Sessions |-> NoDb]
    /\ isAuthReady = [s \in Sessions |-> FALSE]
    /\ habits = [s \in Sessions |-> <<>>]
    /\ isLoading = [s \in Sessions |-> TRUE]
    /\ selectedDate = [s \in Sessions |-> 1]
    /\ isEditable = [s \in Sessions |-> TRUE]
    /\ isAdding = [s \in Sessions |-> FALSE]
    /\ subs = [s \in Sessions |-> <<>>]
    /\ cleanup = [s \in Sessions |-> 0]
    /\ lastOp = NoOp


\* ------------------------------------------------- useFirebaseSetup, useHabits

\* the guard of the useHabits effect: it subscribes only with all three set
EffectSubscribes(db, uid, ready) == db # NoDb /\ ready /\ uid # NoUser

\* the cleanup React runs before the next effect and at unmount:
\* () => unsubscribe(), when the last effect run returned one
\* an effect that returns no cleanup
RunCleanupNever(ss, c) == ss

RunCleanup(ss, c) ==
    IF c = 0 THEN ss
    ELSE [ss EXCEPT ![c] = [active |-> FALSE, releases |-> @.releases + 1]]

\* onSnapshot(q, ...): a new active subscription
Subscribe(ss) == Append(ss, [active |-> TRUE, releases |-> 0])

HasActiveSub(s) == \E i \in 1..Len(subs[s]) : subs[s][i].active

\* the onAuthStateChanged callback, the render it causes and the useHabits
\* effect that render schedules when [db, userId, isAuthReady] changed
AuthStateChanged(s, user) ==
    /\ mounted[s]
    /\ userId' = [userId EXCEPT ![s] = user]
    /\ dbInstance' = [dbInstance EXCEPT ![s] = Db]
    /\ isAuthReady' = [isAuthReady EXCEPT ![s] = TRUE]
    /\ IF <<dbInstance[s], userId[s], isAuthReady[s]>> # <<Db, user, TRUE>>
       THEN /\ isEditable' =
                  [isEditable EXCEPT ![s] = IsEditableAt(selectedDate[s], getToday)]
            /\ IF EffectSubscribes(Db, user, TRUE)
               THEN /\ Len(subs[s]) < MaxSubs
                    /\ subs' = [subs EXCEPT
                                  ![s] = Subscribe(RunCleanup(subs[s], cleanup[s]))]
                    /\ cleanup' = [cleanup EXCEPT ![s] = Len(subs[s]) + 1]
                    /\ isLoading' = [isLoading EXCEPT ![s] = TRUE]
               ELSE /\ subs' = [subs EXCEPT ![s] = RunCleanup(subs[s], cleanup[s])]
                    /\ cleanup' = [cleanup EXCEPT ![s] = 0]
                    /\ isLoading' = [isLoading EXCEPT ![s] = FALSE]
       ELSE UNCHANGED <<isEditable, subs, cleanup, isLoading>>
    /\ UNCHANGED <<today, store, usedIds, mounted, habits, selectedDate,
                   isAdding, lastOp>>

\* the component is torn down: the effect cleanups run and its state is gone
Unmount(s) ==
    /\ mounted[s]
    /\ mounted' = [mounted EXCEPT ![s] = FALSE]
    /\ subs' = [subs EXCEPT ![s] = RunCleanup(subs[s], cleanup[s])]
    /\ cleanup' = [cleanup EXCEPT ![s] = 0]
    /\ userId' = [userId EXCEPT ![s] = NoUser]
    /\ dbInstance' = [dbInstance EXCEPT ![s] = NoDb]
    /\ isAuthReady' = [isAuthReady EXCEPT ![s] = FALSE]
    /\ habits' = [habits EXCEPT ![s] = <<>>]
    /\ isLoading' = [isLoading EXCEPT ![s] = TRUE]
    /\ selectedDate' = [selectedDate EXCEPT ![s] = 1]
    /\ isEditable' = [isEditable EXCEPT ![s] = TRUE]
    /\ isAdding' = [isAdding EXCEPT ![s] = FALSE]
    /\ UNCHANGED <<today, store, usedIds, lastOp>>

\* the onSnapshot callback: the list is replaced by the stored collection
Snapshot(s) ==
    /\ mounted[s]
    /\ HasActiveSub(s)
    /\ SnapshotList(store) # habits[s] \/ isLoading[s]
    /\ habits' = [habits EXCEPT ![s] = SnapshotList(store)]
    /\ isLoading' = [isLoading EXCEPT ![s] = FALSE]
    /\ isEditable' =
          [isEditable EXCEPT ![s] = IsEditableAt(selectedDate[s], getToday)]
    /\ UNCHANGED <<today, store, usedIds, mounted, authVars, selectedDate,
                   isAdding, subs, cleanup, lastOp>>

\* ------------------------------------------------------------ date and form

\* midnight passes: getToday() returns the next day; nothing re-renders
AdvanceDay ==
    /\ today < MaxDay
    /\ today' = today + 1
    /\ UNCHANGED <<store, usedIds, mounted, authVars, habits, isLoading,
                   selectedDate, isEditable, isAdding, subs, cleanup, lastOp>>

\* DateNavigator: navDate, setToday or a click on a DayHeader
SetSelectedDate(s, d) ==
    /\ mounted[s]
    /\ d # selectedDate[s]
    /\ selectedDate' = [selectedDate EXCEPT ![s] = d]
    /\ isEditable' = [isEditable EXCEPT ![s] = IsEditableAt(d, getToday)]
    /\ UNCHANGED <<today, store, usedIds, mounted, authVars, habits, isLoading,
                   isAdding, subs, cleanup, lastOp>>

\* App renders AddHabitForm only when isAuthReady && !isLoading
FormRendered(s) == mounted[s] /\ isAuthReady[s] /\ ~isLoading[s]

maxedOut(s) == Len(habits[s]) >= HABIT_LIMIT

\* the "Add a New Habit" button: setIsAdding(true)
OpenForm(s) ==
    /\ FormRendered(s)
    /\ ~isAdding[s]
    /\ ~maxedOut(s)
    /\ isAdding' = [isAdding EXCEPT ![s] = TRUE]
    /\ UNCHANGED <<today, store, usedIds, mounted, authVars, habits, isLoading,
                   selectedDate, isEditable, subs, cleanup, lastOp>>

\* the Cancel button: setIsAdding(false)
CancelForm(s) ==
    /\ FormRendered(s)
    /\ isAdding[s]
    /\ isAdding' = [isAdding EXCEPT ![s] = FALSE]
    /\ UNCHANGED <<today, store, usedIds, mounted, authVars, habits, isLoading,
                   selectedDate, isEditable, subs, cleanup, lastOp>>


\* --------------------------------------------------- data management actions

\* the early return of createHabit, deleteHabit and toggleCompletion
DatabaseNotReady(s) == dbInstance[s] = NoDb \/ userId[s] = NoUser

\* what the async function resolves to once the write settled: the catch
\* block logs the error and falls through, so a rejected write resolves alike
Resolves(accepted) == "undefined"

\* what a handler run leaves behind: the write calls it made (0 or 1), whether
\* the write was rejected, and what the async function resolved to
Ran(op, s, id, calls, failed, future, blank, before, accepted) ==
    [op |-> op, who |-> s, id |-> id, day |-> getToday, calls |-> calls,
     failed |-> failed, ret |-> Resolves(accepted), future |-> future,
     blank |-> blank, before |-> before]

\* the document createHabit writes
NewHabit(name, order) ==
    [name |-> name, createdAt |-> Now, order |-> order, completions |-> {}]

\* createHabit(db, userId, name, order), with `id` the value that
\* crypto.randomUUID() returns in it
createHabitWith(s, name, order, id) ==
    IF DatabaseNotReady(s)
    THEN /\ lastOp' = Ran("create", s, 0, 0, FALSE, FALSE, trim(name) = <<>>,
                          FALSE, TRUE)
         /\ UNCHANGED <<store, usedIds>>
    ELSE /\ id \in IdPool \ usedIds
         /\ \E accepted \in BOOLEAN :
              /\ usedIds' = usedIds \cup {id}
              /\ store' = IF accepted
                          THEN setDoc(store, id, NewHabit(name, order))
                          ELSE store
              /\ lastOp' = Ran("create", s, id, 1, ~accepted, FALSE,
                               trim(name) = <<>>, FALSE, accepted)

\* the id handed out in turn, or none (0) once the pool is used up
NextUUID == IF IdPool \ usedIds = {} THEN 0 ELSE randomUUID(usedIds)

\* createHabit with the ids handed out in turn
createHabit(s, name, order) == createHabitWith(s, name, order, NextUUID)

\* AddHabitForm.handleSubmit with the text `raw` in the input
\* a submit check on the untrimmed text
SubmitAcceptsUntrimmed(raw, habitsCount) ==
    raw # <<>> /\ habitsCount < HABIT_LIMIT

SubmitAccepts(raw, habitsCount) == trim(raw) # <<>> /\ habitsCount < HABIT_LIMIT

SubmitWith(s, raw, id) ==
    /\ FormRendered(s)
    /\ isAdding[s]
    /\ IF SubmitAccepts(raw, Len(habits[s]))
       THEN /\ createHabitWith(s, trim(raw), Len(habits[s]), id)
            /\ isAdding' = [isAdding EXCEPT ![s] = FALSE]
       ELSE /\ lastOp' = Ran("create", s, 0, 0, FALSE, FALSE,
                             trim(raw) = <<>>, FALSE, TRUE)
            /\ UNCHANGED <<store, usedIds, isAdding>>
    /\ UNCHANGED <<today, mounted, authVars, habits, isLoading, selectedDate,
                   isEditable, subs, cleanup>>

\* handleSubmit with the ids handed out in turn: the properties checked under
\* it read an id only for equality
Submit(s, raw) == SubmitWith(s, raw, NextUUID)

\* App renders the HabitItems only when !(isLoading || !isAuthReady)
ListRendered(s) == mounted[s] /\ isAuthReady[s] /\ ~isLoading[s]

StoredStatus(st, id, day) == id \in DOMAIN st /\ day \in st[id].completions

\* toggleCompletion(db, userId, habit)
toggleCompletion(s, habit) ==
    LET future == selectedDate[s] > getToday
        before == StoredStatus(store, habit.id, getToday)
    IN  IF DatabaseNotReady(s)
        THEN /\ lastOp' = Ran("toggle", s, habit.id, 0, FALSE, future, FALSE,
                              before, TRUE)
             /\ UNCHANGED store
        ELSE \E accepted \in BOOLEAN :
                /\ store' = IF accepted
                            THEN updateDoc(store, habit.id,
                                           newCompletions(habit, getToday))
                            ELSE store
                /\ lastOp' = Ran("toggle", s, habit.id, 1,
                                 ~accepted \/ updateDocRejects(store, habit.id),
                                 future, FALSE, before, accepted)

\* HabitItem.handleToggle on the i-th item of the list
Toggle(s, i) ==
    /\ ListRendered(s)
    /\ i \in 1..Len(habits[s])
    /\ IF isEditable[s]
       THEN toggleCompletion(s, habits[s][i])
       ELSE /\ lastOp' = Ran("toggle", s, habits[s][i].id, 0, FALSE,
                             selectedDate[s] > getToday, FALSE,
                             StoredStatus(store, habits[s][i].id, getToday),
                             TRUE)
            /\ UNCHANGED store
    /\ UNCHANGED <<today, usedIds, mounted, authVars, habits, isLoading,
                   selectedDate, isEditable, isAdding, subs, cleanup>>

\* deleteHabit(db, userId, habitId)
deleteHabit(s, habitId) ==
    IF DatabaseNotReady(s)
    THEN /\ lastOp' = Ran("delete", s, habitId, 0, FALSE, FALSE, FALSE, FALSE,
                          TRUE)
         /\ UNCHANGED store
    ELSE \E accepted \in BOOLEAN :
            /\ store' = IF accepted THEN deleteDoc(store, habitId) ELSE store
            /\ lastOp' = Ran("delete", s, habitId, 1, ~accepted, FALSE, FALSE,
                             FALSE, accepted)

\* HabitItem.handleDelete on the i-th item, confirmed in the dialog
Delete(s, i) ==
    /\ ListRendered(s)
    /\ i \in 1..Len(habits[s])
    /\ deleteHabit(s, habits[s][i].id)
    /\ UNCHANGED <<today, usedIds, mounted, authVars, habits, isLoading,
                   selectedDate, isEditable, isAdding, subs, cleanup>>

\* ------------------------------------------------------------ specification
Items == 1..(HABIT_LIMIT + 1)

\* every step of every session.  The specifications after Spec restrict it to
\* the sessions, inputs and steps one property is about, each small enough to
\* explore in full.
Next ==
    \/ \E s \in Sessions, user \in {NoUser, Uid} : AuthStateChanged(s, user)
    \/ \E s \in Sessions : Unmount(s)
    \/ \E s \in Sessions : Snapshot(s)
    \/ AdvanceDay
    \/ \E s \in Sessions, d \in Dates : SetSelectedDate(s, d)
    \/ \E s \in Sessions : OpenForm(s)
    \/ \E s \in Sessions : CancelForm(s)
    \/ \E s \in Sessions, raw \in Names : Submit(s, raw)
    \/ \E s \in Sessions, i \in Items : Toggle(s, i)
    \/ \E s \in Sessions, i \in Items : Delete(s, i)

Spec == Init /\ [][Next]_vars

\* two signed-in sessions creating up to the id pool and deleting
NextCreate ==
    \/ \E s \in Sessions : AuthStateChanged(s, Uid)
    \/ \E s \in Sessions : Snapshot(s)
    \/ \E s \in Sessions : OpenForm(s)
    \/ \E s \in Sessions : CancelForm(s)
    \/ \E s \in Sessions : Submit(s, <<"a">>)
    \/ \E s \in Sessions, i \in Items : Delete(s, i)

SpecCreate == Init /\ [][NextCreate]_vars

\* the user has created fewer than MaxCreated habits so far
MayCreate == Cardinality(usedIds) < MaxCreated

\* two signed-in sessions over a few habits, as the days pass
NextShared ==
    \/ \E s \in Sessions : AuthStateChanged(s, Uid)
    \/ \E s \in Sessions : Snapshot(s)
    \/ AdvanceDay
    \/ \E s \in Sessions, d \in Dates : SetSelectedDate(s, d)
    \/ \E s \in Sessions : OpenForm(s)
    \/ \E s \in Sessions : CancelForm(s)
    \/ \E s \in Sessions : MayCreate /\ Submit(s, <<"a">>)
    \/ \E s \in Sessions, i \in Items : Toggle(s, i)
    \/ \E s \in Sessions, i \in Items : Delete(s, i)

SpecShared == Init /\ [][NextShared]_vars

\* two sessions creating, toggling and deleting a few habits on one day
NextDelete ==
    \/ \E s \in Sessions : AuthStateChanged(s, Uid)
    \/ \E s \in Sessions : Snapshot(s)
    \/ \E s \in Sessions : OpenForm(s)
    \/ \E s \in Sessions : CancelForm(s)
    \/ \E s \in Sessions : MayCreate /\ Submit(s, <<"a">>)
    \/ \E s \in Sessions, i \in Items : Toggle(s, i)
    \/ \E s \in Sessions, i \in Items : Delete(s, i)

SpecDelete == Init /\ [][NextDelete]_vars

\* one session selecting dates and toggling as the days pass
NextDates ==
    \/ \E user \in {NoUser, Uid} : AuthStateChanged("s1", user)
    \/ Snapshot("s1")
    \/ AdvanceDay
    \/ \E d \in Dates : SetSelectedDate("s1", d)
    \/ OpenForm("s1")
    \/ CancelForm("s1")
    \/ MayCreate /\ Submit("s1", <<"a">>)
    \/ \E i \in Items : Toggle("s1", i)
    \/ \E i \in Items : Delete("s1", i)

SpecDates == Init /\ [][NextDates]_vars

\* the sessions through their whole life: signed out and in, torn down
NextLife ==
    \/ \E s \in Sessions, user \in {NoUser, Uid} : AuthStateChanged(s, user)
    \/ \E s \in Sessions : Unmount(s)
    \/ \E s \in Sessions : Snapshot(s)
    \/ \E s \in Sessions : OpenForm(s)
    \/ \E s \in Sessions : CancelForm(s)
    \/ \E s \in Sessions : MayCreate /\ Submit(s, <<"a">>)
    \/ \E s \in Sessions, i \in Items : Delete(s, i)

SpecLife == Init /\ [][NextLife]_vars

\* one session typing every name
NextNames ==
    \/ \E user \in {NoUser, Uid} : AuthStateChanged("s1", user)
    \/ Snapshot("s1")
    \/ OpenForm("s1")
    \/ CancelForm("s1")
    \/ \E raw \in Names : MayCreate /\ Submit("s1", raw)
    \/ \E i \in Items : Delete("s1", i)

SpecNames == Init /\ [][NextNames]_vars

\* the session's list is the stored collection: every snapshot was delivered
ViewCurrent(s) == ~isLoading[s] /\ habits[s] = SnapshotList(store)

\* one session creating and deleting, each create made from a current list
\* and given any unused id
NextOrder ==
    \/ AuthStateChanged("s1", Uid)
    \/ Snapshot("s1")
    \/ OpenForm("s1")
    \/ CancelForm("s1")
    \/ \E id \in IdPool : ViewCurrent("s1") /\ SubmitWith("s1", <<"a">>, id)
    \/ \E i \in Items : Delete("s1", i)

SpecOrder == Init /\ [][NextOrder]_vars


\* ------------------------------------------------------------------ claims

\* a handler ran in this step
OpRan == lastOp' # lastOp

HabitCount == Cardinality(DOMAIN store)

\* C1: a create with a non-empty trimmed name, by a form that sees n habits:
\* for n < 3 it issues exactly one write, and once that write is accepted one
\* new habit with a fresh id and no completions is stored and the stored count
\* is n + 1; for n >= 3 it issues no write and the count is unchanged.
C1_CreateByCount ==
    [][(OpRan /\ lastOp'.op = "create" /\ ~lastOp'.blank) =>
          LET n == Len(habits[lastOp'.who])
              id == lastOp'.id
          IN  IF n < HABIT_LIMIT
              THEN /\ lastOp'.calls = 1
                   /\ id \notin usedIds
                   /\ (~lastOp'.failed) =>
                         /\ DOMAIN store' = DOMAIN store \cup {id}
                         /\ store'[id].completions = {}
                         /\ Cardinality(DOMAIN store') = n + 1
              ELSE /\ lastOp'.calls = 0
                   /\ store' = store]_vars

\* C2: the number of habits stored for the user never exceeds the limit.
C2_AtMostLimit == HabitCount <= HABIT_LIMIT

\* the last two handlers that ran were accepted toggles of one habit by one
\* session on one day
ToggledTwice ==
    /\ OpRan
    /\ lastOp.op = "toggle" /\ lastOp.calls = 1 /\ ~lastOp.failed
    /\ lastOp'.op = "toggle" /\ lastOp'.calls = 1 /\ ~lastOp'.failed
    /\ lastOp'.who = lastOp.who
    /\ lastOp'.id = lastOp.id
    /\ lastOp'.day = lastOp.day

\* C3: two toggles of a habit in a row on one day leave its stored status for
\* that day as it was before the first.
C3_ToggleTwiceRestores ==
    [][ToggledTwice =>
          StoredStatus(store', lastOp.id, lastOp.day) = lastOp.before]_vars

\* C7: a handler whose write is rejected made exactly one write call and
\* resolves to an outcome that differs from the outcome of an accepted write.
C7_FailureSurfaces ==
    lastOp.failed => lastOp.calls = 1 /\ lastOp.ret # Resolves(TRUE)

\* C10: a toggle of habit h on day d changes nothing in the store but the
\* completion entry of h for d.
C10_ToggleFrame ==
    [][(OpRan /\ lastOp'.op = "toggle") =>
          /\ DOMAIN store' = DOMAIN store
          /\ \A id \in DOMAIN store :
                /\ store'[id].name = store[id].name
                /\ store'[id].createdAt = store[id].createdAt
                /\ store'[id].order = store[id].order
                /\ store'[id].completions \ {lastOp'.day} =
                      store[id].completions \ {lastOp'.day}
                /\ id # lastOp'.id => store'[id] = store[id]]_vars


\* the ids of the habits in a session's in-memory list
ViewIds(s) == {habits[s][i].id : i \in 1..Len(habits[s])}

\* the ids that were handed out and are not stored: deleted, or never written
Gone == usedIds \ DOMAIN store

\* C4: a habit that is gone from the store stays gone, a session whose list
\* dropped it never lists it again, and a toggle issued for it from a list
\* that still shows it is rejected and changes nothing.
C4_DeletedStaysAbsent ==
    [][/\ \A id \in Gone :
            /\ id \notin DOMAIN store'
            /\ \A s \in Sessions :
                  id \notin ViewIds(s) => id \notin ViewIds(s)'
       /\ (OpRan /\ lastOp'.op = "toggle" /\ lastOp'.id \in Gone) =>
             /\ store' = store
             /\ lastOp'.calls = 1 => lastOp'.failed]_vars

\* a toggle was issued for a deleted habit from a list that still shows it,
\* after another session's list had dropped it
C4_Witness ==
    /\ lastOp.op = "toggle" /\ lastOp.calls = 1 /\ lastOp.failed
    /\ lastOp.id \in Gone
    /\ lastOp.id \in ViewIds(lastOp.who)
    /\ \E s \in Sessions :
          ~isLoading[s] /\ HasActiveSub(s) /\ lastOp.id \notin ViewIds(s)

\* C5: no stored or listed habit marks a date after today as completed, and
\* a toggle made while the selected date is after today issues no write.
C5_NoFutureCompletion ==
    /\ \A id \in DOMAIN store : \A d \in store[id].completions : d <= today
    /\ \A s \in Sessions : \A i \in 1..Len(habits[s]) :
          \A d \in habits[s][i].completions : d <= today
    /\ (lastOp.op = "toggle" /\ lastOp.future) => lastOp.calls = 0

\* after a completion on an earlier day, a toggle was tried on a future date
C5_Witness ==
    /\ lastOp.op = "toggle" /\ lastOp.future /\ lastOp.calls = 0
    /\ today > 1
    /\ \E id \in DOMAIN store : store[id].completions # {}

ActiveSubs(s) == {i \in 1..Len(subs[s]) : subs[s][i].active}

\* C6: a session holds at most one active subscription; a subscription is
\* released exactly once, when the session it was acquired for ends (the
\* user signs out or the component is torn down), and never twice; the
\* habit list of a mounted session changes only under an active subscription.
C6_SubscriptionDiscipline ==
    /\ [](\A s \in Sessions :
            /\ Cardinality(ActiveSubs(s)) <= 1
            /\ \A i \in 1..Len(subs[s]) :
                  subs[s][i].releases = IF subs[s][i].active THEN 0 ELSE 1
            /\ ActiveSubs(s) # {} =>
                  /\ mounted[s]
                  /\ EffectSubscribes(dbInstance[s], userId[s], isAuthReady[s]))
    /\ [][\A s \in Sessions :
            (habits'[s] # habits[s] /\ mounted'[s]) =>
               (ActiveSubs(s) # {} /\ ActiveSubs(s)' = ActiveSubs(s))]_vars

\* a session released its first subscription, acquired a second one and
\* received a snapshot on it; the other session was torn down while subscribed
C6_Witness ==
    \E s, r \in Sessions :
        /\ Len(subs[s]) = 2
        /\ subs[s][1].releases = 1 /\ subs[s][2].active
        /\ habits[s] # <<>>
        /\ ~mounted[r] /\ Len(subs[r]) = 1 /\ subs[r][1].releases = 1

\* a name as the store should hold it
IsTrimmed(name) ==
    name # <<>> /\ name[1] # " " /\ name[Len(name)] # " "

\* C8: a create with a name that is empty after trimming issues no write and
\* leaves the store as it is; every stored habit has a non-empty name without
\* leading or trailing whitespace.
C8_BlankNameNoOp ==
    /\ []((lastOp.op = "create" /\ lastOp.blank) => lastOp.calls = 0)
    /\ [](\A id \in DOMAIN store : IsTrimmed(store[id].name))
    /\ [][(OpRan /\ lastOp'.op = "create" /\ lastOp'.blank) =>
             store' = store]_vars

\* a blank name was submitted while the form was open, and nothing was written
C8_Witness ==
    /\ lastOp.op = "create" /\ lastOp.blank /\ lastOp.calls = 0
    /\ isAdding[lastOp.who]
    /\ store = << >>

\* C11: every in-memory list is in ascending creation order: a habit created
\* earlier is listed before one created later.
C11_CreationOrder ==
    \A s \in Sessions : \A i, j \in 1..Len(habits[s]) :
        i < j => habits[s][i].createdAt < habits[s][j].createdAt

====
